---- MODULE Spec2Model ----
(***************************************************************************)
(* Model of notebooks/Transfer_Learning.ipynb: the dataset acquisition     *)
(* function download_and_extract_data, the cell sequence that follows it   *)
(* (dataset loading, net definition, net.fit) and the training run with    *)
(* its three callbacks (LRScheduler, Checkpoint, Freezer).                 *)
(*                                                                         *)
(* The notebook's own code is translated statement by statement.  The      *)
(* training loop and the callback classes live in the skorch package,      *)
(* whose sources are not part of the notebook; they are modelled from the  *)
(* specification and cross-checked against the output that the notebook    *)
(* recorded for net.fit.                                                   *)
(***************************************************************************)
EXTENDS Integers, Sequences, FiniteSets, TLC

\* ------------------------------------------------------------------ bounds
\* Number of training / validation images stored in the archive.
NumTrain == 5
NumVal == 1
\* How often the acquisition cell may be invoked in one behaviour.
MaxCalls == 3

\* ------------------------------------------------------- filesystem state
VARIABLES
  data_zip,     \* datasets/hymenoptera_data.zip: "absent", "partial", "complete"
  data_path,    \* datasets/hymenoptera_data: [exists, train, val]
  best_model_pt \* best_model.pt: <<>> when absent, else <<saved parameters>>

\* ------------------------------------------- notebook (cell) control state
VARIABLES
  pc,           \* position in the cell sequence / inside the running call
  error,        \* the exception that ended the run, "none" otherwise
  data,         \* bytes held in memory by download_and_extract_data
  train_ds,     \* number of images of train_ds (0 before it is built)
  val_ds,       \* number of images of val_ds (0 before it is built)
  gpuAvailable  \* whether the machine has a CUDA device

\* ---------------------------- observation of the acquisition (history)
VARIABLES
  calls,        \* invocations of download_and_extract_data so far
  fs0,          \* filesystem at the start of the current invocation
  callReqs,     \* urlopen requests made by the current invocation
  callWrites,   \* open(data_zip, 'wb') performed by the current invocation
  callExtracts, \* members extracted by the current invocation
  succeeded,    \* some earlier invocation returned normally
  fsAfter,      \* filesystem as the first successful invocation left it
  afterSuccess, \* the current invocation started after a successful one
  netFailed     \* the fetch of the current run failed

\* ------------------------------------------------ state of net (net.fit)
VARIABLES
  device_in_use, \* device the module was moved to, "none" before
  params,        \* module parameters: name -> number of updates applied
  requires_grad, \* name -> whether the parameter receives gradient updates
  optimizer_lr,  \* learning rate of the SGD param group, in units of 1e-9
  last_epoch,    \* StepLR.last_epoch: scheduler steps taken
  best_score_,   \* best valid_acc seen by the valid_acc scoring callback
  epoch,         \* len(net.history)
  batch,         \* training batches done in the current epoch
  valid_acc,     \* correct validation predictions of the current epoch
  event_cp,      \* history[-1, 'event_cp']
  \* observation of the run
  seenAccs,      \* valid_acc values of the completed epochs
  snapAtFirstMax,\* parameters at the end of the first epoch that reached max
  trainSteps,    \* training steps executed
  validPasses    \* validation passes executed

\* ------------------- two runs of the transform pipelines, side by side
VARIABLES
  img,           \* the image both runs hand to the validation pipeline
  rng,           \* run -> state of the torch generator
  applied,       \* run -> applications of train_transforms so far
  train_out,     \* run -> last tensor train_transforms produced, <<>> if none
  val_out,       \* run -> tensors val_transforms produced for img
  valAfterTrain  \* run -> val_transforms ran after train_transforms had run

pipeVars == <<img, rng, applied, train_out, val_out, valAfterTrain>>

\* ------------------------- one epoch's training iterator and its workers
VARIABLES
  sent,          \* batches handed to the workers so far
  task,          \* worker -> batch it is loading, 0 when it has none
  fetched,       \* worker -> samples of its batch loaded so far
  ready,         \* batches loaded and not yet taken by the training loop
  cur,           \* batch the training loop holds, 0 before the first
  phase,         \* last phase the training loop completed for cur
  log,           \* phases completed by the training loop, in order
  writers        \* processes that have written the module parameters

loaderVars == <<sent, task, fetched, ready, cur, phase, log, writers>>

\* state outside the notebook's single run
sideVars == <<pipeVars, loaderVars>>

fitOwnVars == <<best_model_pt, train_ds, val_ds, gpuAvailable, device_in_use,
                params, requires_grad, optimizer_lr, last_epoch, best_score_,
                epoch, batch, valid_acc, event_cp, seenAccs, snapAtFirstMax,
                trainSteps, validPasses>>

fitVars == <<fitOwnVars, sideVars>>

acqVars == <<data_zip, data_path, pc, error, data, calls, fs0, callReqs,
             callWrites, callExtracts, succeeded, fsAfter, afterSuccess,
             netFailed>>

NoDir == [exists |-> FALSE, train |-> 0, val |-> 0]

\* os.path.exists(data_path)
PathExists(p) == p.exists

\* os.path.exists(data_zip)
ZipExists(z) == z # "absent"

\* The archive served at `url`: every member lies under hymenoptera_data/,
\* the train images first, then the validation images.
ArchiveTree == [exists |-> TRUE, train |-> NumTrain, val |-> NumVal]

FS == [zip |-> data_zip, path |-> data_path]

Max(a, b) == IF a >= b THEN a ELSE b

\* ------------------------------------- download_and_extract_data (cell 7)
\* `if not os.path.exists(data_path):` without the guard (mutant)
NeedsExtract_noGuard(p) == TRUE

\* acquisition repeated whenever the directory or the archive is missing (mutant)
NeedsExtract_orNoZip(p) == ~PathExists(p) \/ ~ZipExists(data_zip)

\* `if not os.path.exists(data_path):`
NeedsExtract(p) == ~PathExists(p)

\* archive fetched again although the file is there (mutant)
NeedsDownload_always(z) == TRUE

\* `if not os.path.exists(data_zip):`
NeedsDownload(z) == ~ZipExists(z)

\* extraction block indented under the download branch (mutant): an archive
\* that is already present is never extracted
AfterZipPresent_skip == "print"

\* The extraction block follows the inner `if` at the level of the outer
\* one: it runs whether or not the archive had to be downloaded.
AfterZipPresent == "zip_open"

\* fetch failure swallowed by a handler that goes on to the extraction (mutant)
OnFetchError_swallow == "zip_open"

\* request.urlopen(url, timeout=15).read() is not wrapped in any handler:
\* its exception leaves the function and ends the cell.
OnFetchError == "raised"

\* Entry of the function up to the two os.path.exists tests.  The cell may
\* be run again after it returned or after the run was aborted, as long as
\* no training epoch has begun.
Call ==
  /\ pc \in {"cell_download", "returned", "raised"}
  /\ calls < MaxCalls
  /\ epoch = 0
  /\ calls' = calls + 1
  /\ fs0' = FS
  /\ callReqs' = 0
  /\ callWrites' = 0
  /\ callExtracts' = 0
  /\ afterSuccess' = succeeded
  /\ netFailed' = FALSE
  /\ error' = "none"
  /\ data' = "none"
  /\ IF NeedsExtract(data_path)
       THEN IF NeedsDownload(data_zip)
              THEN pc' = "download"
              ELSE pc' = AfterZipPresent
       ELSE pc' = "print"
  /\ UNCHANGED fitVars
  /\ UNCHANGED <<data_zip, data_path, succeeded, fsAfter>>

\* data = request.urlopen(url, timeout=15).read()        -- success
UrlopenRead ==
  /\ pc = "download"
  /\ callReqs' = callReqs + 1
  /\ data' = "bytes"
  /\ pc' = "write"
  /\ UNCHANGED fitVars
  /\ UNCHANGED <<data_zip, data_path, error, calls, fs0, callWrites,
                 callExtracts, succeeded, fsAfter, afterSuccess, netFailed>>

\* the file opened for writing before the fetch is made (mutant)
ZipLeftByFailedFetch_openFirst(z) == "partial"

\* open(data_zip, 'wb') comes only after read() has returned: a failed fetch
\* leaves the archive path as it was
ZipLeftByFailedFetch(z) == z

\* data = request.urlopen(url, timeout=15).read()        -- URLError, HTTPError
\* (missing archive) or socket timeout
UrlopenReadFails ==
  /\ pc = "download"
  /\ callReqs' = callReqs + 1
  /\ netFailed' = TRUE
  /\ pc' = OnFetchError
  /\ error' = IF OnFetchError = "raised" THEN "network" ELSE error
  /\ data_zip' = ZipLeftByFailedFetch(data_zip)
  /\ UNCHANGED fitVars
  /\ UNCHANGED <<data_path, data, calls, fs0, callWrites,
                 callExtracts, succeeded, fsAfter, afterSuccess>>

\* with open(data_zip, 'wb') as f: f.write(data)          -- success
WriteZip ==
  /\ pc = "write"
  /\ data_zip' = "complete"
  /\ callWrites' = callWrites + 1
  /\ pc' = "zip_open"
  /\ UNCHANGED fitVars
  /\ UNCHANGED <<data_path, error, data, calls, fs0, callReqs, callExtracts,
                 succeeded, fsAfter, afterSuccess, netFailed>>

\* with open(data_zip, 'wb') as f: f.write(data)          -- OSError: either
\* open() fails and creates nothing, or the file is created and the write
\* stops part way
WriteZipFails ==
  /\ pc = "write"
  /\ \E opened \in BOOLEAN :
       /\ data_zip' = IF opened THEN "partial" ELSE data_zip
       /\ callWrites' = IF opened THEN callWrites + 1 ELSE callWrites
  /\ pc' = "raised"
  /\ error' = "io"
  /\ UNCHANGED fitVars
  /\ UNCHANGED <<data_path, data, calls, fs0, callReqs, callExtracts,
                 succeeded, fsAfter, afterSuccess, netFailed>>

\* with ZipFile(data_zip, 'r') as zip_f:  -- a file that is absent or cut
\* short has no central directory and ZipFile raises
ZipOpen ==
  /\ pc = "zip_open"
  /\ IF data_zip = "complete"
       THEN /\ pc' = "extractall"
            /\ error' = error
       ELSE /\ pc' = "raised"
            /\ error' = IF data_zip = "absent" THEN "io" ELSE "badzip"
  /\ UNCHANGED fitVars
  /\ UNCHANGED <<data_zip, data_path, data, calls, fs0, callReqs, callWrites,
                 callExtracts, succeeded, fsAfter, afterSuccess, netFailed>>

\* Tree after member number k of the archive has been written.
ExtractedMember(p, k) ==
  IF k <= NumTrain
    THEN [exists |-> TRUE, train |-> Max(p.train, k), val |-> p.val]
    ELSE [exists |-> TRUE, train |-> p.train, val |-> Max(p.val, k - NumTrain)]

\* zip_f.extractall(dataset_dir): one member after the other
ExtractMember ==
  /\ pc = "extractall"
  /\ callExtracts < NumTrain + NumVal
  /\ callExtracts' = callExtracts + 1
  /\ data_path' = ExtractedMember(data_path, callExtracts + 1)
  /\ UNCHANGED fitVars
  /\ UNCHANGED <<data_zip, pc, error, data, calls, fs0, callReqs, callWrites,
                 succeeded, fsAfter, afterSuccess, netFailed>>

\* zip_f.extractall(dataset_dir) raises between two members (disk full, ...)
ExtractFails ==
  /\ pc = "extractall"
  /\ callExtracts < NumTrain + NumVal
  /\ pc' = "raised"
  /\ error' = "io"
  /\ UNCHANGED fitVars
  /\ UNCHANGED <<data_zip, data_path, data, calls, fs0, callReqs, callWrites,
                 callExtracts, succeeded, fsAfter, afterSuccess, netFailed>>

\* extractall is through all members; leave both with-blocks
ExtractDone ==
  /\ pc = "extractall"
  /\ callExtracts = NumTrain + NumVal
  /\ pc' = "print"
  /\ UNCHANGED fitVars
  /\ UNCHANGED <<data_zip, data_path, error, data, calls, fs0, callReqs,
                 callWrites, callExtracts, succeeded, fsAfter, afterSuccess,
                 netFailed>>

\* print("Data has been downloaded and extracted to ...") and return
Return ==
  /\ pc = "print"
  /\ pc' = "returned"
  /\ succeeded' = TRUE
  /\ fsAfter' = IF succeeded THEN fsAfter ELSE FS
  /\ UNCHANGED fitVars
  /\ UNCHANGED <<data_zip, data_path, error, data, calls, fs0, callReqs,
                 callWrites, callExtracts, afterSuccess, netFailed>>

\* ------------------------------------------------- datasets (cell 10)
\* datasets.ImageFolder(os.path.join(data_dir, 'train' / 'val'), ...): a
\* folder without images cannot be loaded
LoadDatasets ==
  /\ pc = "returned"
  /\ IF data_path.train = 0 \/ data_path.val = 0
       THEN /\ pc' = "raised"
            /\ error' = "dataset"
            /\ UNCHANGED <<train_ds, val_ds>>
       ELSE /\ pc' = "datasets_loaded"
            /\ error' = error
            /\ train_ds' = data_path.train
            /\ val_ds' = data_path.val
  /\ UNCHANGED <<data_zip, data_path, data, calls, fs0, callReqs, callWrites,
                 callExtracts, succeeded, fsAfter, afterSuccess, netFailed>>
  /\ UNCHANGED <<best_model_pt, gpuAvailable, device_in_use, params,
                 requires_grad, optimizer_lr, last_epoch, best_score_, epoch,
                 batch, valid_acc, event_cp, seenAccs, snapAtFirstMax,
                 trainSteps, validPasses, sideVars>>

\* ------------------------------------- model and callbacks (cells 14-27)
\* str.startswith
StartsWith(x, prefix) ==
  /\ Len(x) >= Len(prefix)
  /\ SubSeq(x, 1, Len(prefix)) = prefix

\* 'model.fc'
model_fc == <<"m","o","d","e","l",".","f","c">>

\* Names of module_.named_parameters(): PretrainedModel keeps the ResNet18
\* as self.model, so every name starts with 'model.'; the replaced final
\* layer is model.fc.  Two backbone parameters stand for the backbone.
ParamNames ==
  { <<"m","o","d","e","l",".","c","o","n","v","1",".","w">>,
    <<"m","o","d","e","l",".","l","a","y","e","r","4",".","b">>,
    <<"m","o","d","e","l",".","f","c",".","w">>,
    <<"m","o","d","e","l",".","f","c",".","b">> }

\* models.resnet18(pretrained=True) with model.fc = nn.Linear(...): the
\* values every parameter has when the module is built
PretrainedModel == [n \in ParamNames |-> 0]

\* program constants of the net and of the scheduler
lr == 1000000
batch_size == 4
max_epochs == 25
step_size == 7
gamma_num == 1
gamma_den == 10

\* scheduler stepping every 8 epochs (mutant)
lrscheduler_step8 == [policy |-> "StepLR", step_size |-> step_size + 1]

\* lrscheduler = LRScheduler(policy='StepLR', step_size=7, gamma=0.1)
lrscheduler == [policy |-> "StepLR", step_size |-> step_size]

\* Checkpoint without a monitor saves at the end of every epoch (mutant)
checkpoint_unmonitored == [f_params |-> "best_model.pt", monitor |-> "None"]

\* checkpoint = Checkpoint(f_params='best_model.pt', monitor='valid_acc_best')
checkpoint == [f_params |-> "best_model.pt", monitor |-> "valid_acc_best"]

\* the `not` of the predicate lost (mutant)
freezer_inverted(x) == StartsWith(x, model_fc)

\* freezer = Freezer(lambda x: not x.startswith('model.fc'))
freezer(x) == ~StartsWith(x, model_fc)

\* max_epochs left out of the call: the wrapper's default of 10 (mutant)
net_default_epochs ==
  [lr |-> lr, batch_size |-> batch_size, max_epochs |-> 10,
   callbacks |-> <<"lrscheduler", "checkpoint", "freezer">>,
   device |-> "cuda"]

\* device chosen by availability instead of requested outright (mutant)
net_device_fallback ==
  [lr |-> lr, batch_size |-> batch_size, max_epochs |-> max_epochs,
   callbacks |-> <<"lrscheduler", "checkpoint", "freezer">>,
   device |-> IF gpuAvailable THEN "cuda" ELSE "cpu"]

\* scheduler callback not passed to the net (mutant)
net_without_lrscheduler ==
  [lr |-> lr, batch_size |-> batch_size, max_epochs |-> max_epochs,
   callbacks |-> <<"checkpoint", "freezer">>,
   device |-> "cuda"]

\* checkpoint callback not passed to the net (mutant)
net_without_checkpoint ==
  [lr |-> lr, batch_size |-> batch_size, max_epochs |-> max_epochs,
   callbacks |-> <<"lrscheduler", "freezer">>,
   device |-> "cuda"]

\* net = NeuralNetClassifier(PretrainedModel, lr=0.001, batch_size=4,
\*   max_epochs=25, ..., callbacks=[lrscheduler, checkpoint, freezer],
\*   device='cuda')
net ==
  [lr |-> lr, batch_size |-> batch_size, max_epochs |-> max_epochs,
   callbacks |-> <<"lrscheduler", "checkpoint", "freezer">>,
   device |-> "cuda"]

HasCallback(name) == \E i \in 1..Len(net.callbacks) : net.callbacks[i] = name

acqRest == <<data_zip, data_path, data, calls, fs0, callReqs, callWrites,
             callExtracts, succeeded, fsAfter, afterSuccess, netFailed,
             sideVars>>

\* ------------------------------------------------ net.fit (cell 29)
\* best_score_ before the first epoch: -infinity
NegInf == 0 - 1

\* module.to(device) fails when the requested accelerator is absent
DeviceUnavailable(dev) == dev = "cuda" /\ ~gpuAvailable

\* DataLoader(batch_size=...) keeps the last, smaller batch
NumBatches(n) == (n + net.batch_size - 1) \div net.batch_size

\* valid_acc scoring (lower_is_better=False): valid_acc_best
IsBest(score, best) == score > best

\* StepLR at its k-th step: decay when k is a multiple of step_size
StepLR(rate, k) ==
  IF k % lrscheduler.step_size = 0
    THEN (rate * gamma_num) \div gamma_den
    ELSE rate

\* Checkpoint.on_epoch_end: save when the monitored history entry is true
DoCheckpoint(isBest) ==
  IF checkpoint.monitor = "None" THEN TRUE ELSE isBest

\* Freezer at the first epoch: requires_grad = False where the predicate holds
Freeze(rg) == [n \in ParamNames |-> IF freezer(n) THEN FALSE ELSE rg[n]]

\* one optimizer step: only parameters with requires_grad move
SGDStep(ps, rg) == [n \in ParamNames |-> IF rg[n] THEN ps[n] + 1 ELSE ps[n]]

\* ---- the run recorded in the notebook (output of net.fit)
\* column valid_acc, in units of 1e-4
recorded_valid_acc ==
  << 9477, 9346, 9412, 9346, 7778, 9216, 8889, 9477, 9477, 9281, 9346, 9477,
     9477, 9542, 9477, 9412, 9346, 9281, 9477, 9477, 9412, 9346, 9477, 9216,
     9477 >>

\* column cp: the epochs marked '+'
recorded_cp == {1, 14}

\* column lr as printed with four decimals, in units of 1e-4
recorded_lr ==
  << 10, 10, 10, 10, 10, 10, 10, 1, 1, 1, 1, 1, 1, 1, 0, 0, 0, 0, 0, 0, 0, 0,
     0, 0, 0 >>

\* best_score_ after the first k epochs of a run with accuracies accs
RECURSIVE BestAfter(_, _)
BestAfter(accs, k) ==
  IF k = 0
    THEN NegInf
    ELSE LET b == BestAfter(accs, k - 1)
         IN IF IsBest(accs[k], b) THEN accs[k] ELSE b

\* epochs at whose end the checkpoint is written in such a run
CheckpointEpochs(accs) ==
  {k \in 1..Len(accs) : DoCheckpoint(IsBest(accs[k], BestAfter(accs, k - 1)))}

\* learning rate after k steps of the scheduler
RECURSIVE LrAfter(_)
LrAfter(k) == IF k = 0 THEN net.lr ELSE StepLR(LrAfter(k - 1), k)

\* a rate in units of 1e-9 printed with four decimals
Round4(rate) == (rate + 50000) \div 100000

\* net.fit: initialize() builds module, criterion and optimizer, moves the
\* module to the device, then on_train_begin
NetFit ==
  /\ pc = "datasets_loaded"
  /\ IF DeviceUnavailable(net.device)
       THEN /\ pc' = "raised"
            /\ error' = "device_unavailable"
            /\ UNCHANGED <<device_in_use, params, requires_grad, optimizer_lr,
                           last_epoch, best_score_>>
       ELSE /\ pc' = "epoch_begin"
            /\ error' = error
            /\ device_in_use' = net.device
            /\ params' = PretrainedModel
            /\ requires_grad' = [n \in ParamNames |-> TRUE]
            /\ optimizer_lr' = net.lr
            /\ last_epoch' = 0
            /\ best_score_' = NegInf
  /\ UNCHANGED <<best_model_pt, train_ds, val_ds, gpuAvailable, epoch, batch,
                 valid_acc, event_cp, seenAccs, snapAtFirstMax, trainSteps,
                 validPasses>>
  /\ UNCHANGED acqRest

\* models.resnet18(pretrained=True) cannot fetch the pretrained weights
LoadPretrainedFails ==
  /\ pc = "datasets_loaded"
  /\ pc' = "raised"
  /\ error' = "weights"
  /\ UNCHANGED fitVars
  /\ UNCHANGED acqRest

\* fit_loop: start of an epoch, on_epoch_begin of the callbacks
EpochBegin ==
  /\ pc = "epoch_begin"
  /\ epoch < net.max_epochs
  /\ epoch' = epoch + 1
  /\ batch' = 0
  /\ requires_grad' = IF HasCallback("freezer") /\ epoch' = 1
                        THEN Freeze(requires_grad)
                        ELSE requires_grad
  /\ pc' = "train"
  /\ UNCHANGED <<best_model_pt, train_ds, val_ds, gpuAvailable, device_in_use,
                 params, optimizer_lr, last_epoch, best_score_, valid_acc,
                 event_cp, seenAccs, snapAtFirstMax, trainSteps, validPasses>>
  /\ UNCHANGED <<error>>
  /\ UNCHANGED acqRest

\* train_step on the next batch of the shuffled training iterator
TrainStep ==
  /\ pc = "train"
  /\ batch < NumBatches(train_ds)
  /\ batch' = batch + 1
  /\ params' = SGDStep(params, requires_grad)
  /\ trainSteps' = trainSteps + 1
  /\ UNCHANGED <<best_model_pt, train_ds, val_ds, gpuAvailable, device_in_use,
                 requires_grad, optimizer_lr, last_epoch, best_score_, epoch,
                 valid_acc, event_cp, seenAccs, snapAtFirstMax, validPasses>>
  /\ UNCHANGED <<pc, error>>
  /\ UNCHANGED acqRest

\* validation pass over val_ds once the training batches are used up
ValidPass ==
  /\ pc = "train"
  /\ batch = NumBatches(train_ds)
  /\ \E correct \in 0..val_ds : valid_acc' = correct
  /\ validPasses' = validPasses + 1
  /\ pc' = "epoch_end"
  /\ UNCHANGED <<best_model_pt, train_ds, val_ds, gpuAvailable, device_in_use,
                 params, requires_grad, optimizer_lr, last_epoch, best_score_,
                 epoch, batch, event_cp, seenAccs, snapAtFirstMax, trainSteps>>
  /\ UNCHANGED <<error>>
  /\ UNCHANGED acqRest

\* on_epoch_end: valid_acc scoring first, then the user callbacks in the
\* order of the callbacks list
EpochEnd ==
  /\ pc = "epoch_end"
  /\ LET isBest == IsBest(valid_acc, best_score_)
         save == HasCallback("checkpoint") /\ DoCheckpoint(isBest)
     IN /\ best_score_' = IF isBest THEN valid_acc ELSE best_score_
        /\ IF HasCallback("lrscheduler")
             THEN /\ last_epoch' = last_epoch + 1
                  /\ optimizer_lr' = StepLR(optimizer_lr, last_epoch + 1)
             ELSE UNCHANGED <<last_epoch, optimizer_lr>>
        /\ best_model_pt' = IF save THEN <<params>> ELSE best_model_pt
        /\ event_cp' = save
  /\ snapAtFirstMax' = IF \A a \in seenAccs : valid_acc > a
                         THEN params
                         ELSE snapAtFirstMax
  /\ seenAccs' = seenAccs \cup {valid_acc}
  /\ pc' = IF epoch = net.max_epochs THEN "done" ELSE "epoch_begin"
  /\ UNCHANGED <<train_ds, val_ds, gpuAvailable, device_in_use, params,
                 requires_grad, epoch, batch, valid_acc, trainSteps,
                 validPasses>>
  /\ UNCHANGED <<error>>
  /\ UNCHANGED acqRest

\* the fit cell wrapped in a handler that calls net.fit again (mutant)
OnFitError_retry == "datasets_loaded"

\* net.fit(train_ds, y=None) is the whole cell: no handler, no retry loop;
\* an exception leaving fit ends the cell
OnFitError == "raised"

\* an exception inside the training or validation of an epoch ends fit
TrainingError ==
  /\ pc \in {"train", "epoch_end"}
  /\ pc' = OnFitError
  /\ error' = "training"
  /\ UNCHANGED fitVars
  /\ UNCHANGED acqRest

\* ------------------------------------------------------- specification
\* ---------------------------- transform pipelines (cells 5 and 11)
NumImages == 2
MaxTrain == 2
RngMod == 16

\* torch.manual_seed(360)
seed == 360

\* the two runs that are compared
Runs == {1, 2}

\* the generator state right after torch.manual_seed(s)
manual_seed(s) == s % RngMod

\* one draw from the generator (a full-period congruential step)
NextRng(g) == (5 * g + 3) % RngMod

\* width and height of the image files
Sizes == {<<500, 375>>, <<333, 500>>}

Images ==
  {[id |-> i, w |-> sz[1], h |-> sz[2], mode |-> "PIL", trace |-> <<>>] :
     i \in 1..NumImages, sz \in Sizes}

NoImage == [id |-> 0, w |-> 0, h |-> 0, mode |-> "PIL", trace |-> <<>>]

\* Normalize([0.485, 0.456, 0.406], [0.229, 0.224, 0.225]), in thousandths
mean == <<485, 456, 406>>
std == <<229, 224, 225>>

RandomResizedCrop(size) == [op |-> "RandomResizedCrop", args |-> <<size>>]
RandomHorizontalFlip == [op |-> "RandomHorizontalFlip", args |-> <<>>]
Resize(size) == [op |-> "Resize", args |-> <<size>>]
CenterCrop(size) == [op |-> "CenterCrop", args |-> <<size>>]
ToTensor == [op |-> "ToTensor", args |-> <<>>]
Normalize(m, sd) == [op |-> "Normalize", args |-> m \o sd]

train_transforms ==
  <<RandomResizedCrop(224), RandomHorizontalFlip, ToTensor,
    Normalize(mean, std)>>

val_transforms_flipped ==
  <<Resize(256), RandomHorizontalFlip, CenterCrop(224), ToTensor,
    Normalize(mean, std)>>

val_transforms ==
  <<Resize(256), CenterCrop(224), ToTensor, Normalize(mean, std)>>

\* what was done to the pixels, appended to the image's trace
Did(x, name, a) == [x EXCEPT !.trace = Append(@, [op |-> name, args |-> a])]

\* one transform applied to st.x with the generator in state st.g
ApplyOp(t, st) ==
  LET x == st.x
      g == st.g
  IN CASE t.op = "Resize" ->
            \* the smaller edge becomes size, the other keeps the ratio
            LET w2 == IF x.w <= x.h THEN t.args[1]
                                    ELSE (t.args[1] * x.w) \div x.h
                h2 == IF x.w <= x.h THEN (t.args[1] * x.h) \div x.w
                                    ELSE t.args[1]
            IN [x |-> Did([x EXCEPT !.w = w2, !.h = h2], "resize", <<w2, h2>>),
                g |-> g]
       [] t.op = "CenterCrop" ->
            LET left == (x.w - t.args[1]) \div 2
                top == (x.h - t.args[1]) \div 2
            IN [x |-> Did([x EXCEPT !.w = t.args[1], !.h = t.args[1]],
                          "crop", <<left, top, t.args[1], t.args[1]>>),
                g |-> g]
       [] t.op = "ToTensor" ->
            [x |-> Did([x EXCEPT !.mode = "tensor"], "scale", <<255>>),
             g |-> g]
       [] t.op = "Normalize" ->
            [x |-> Did(x, "normalize", t.args), g |-> g]
       [] t.op = "RandomHorizontalFlip" ->
            \* torch.rand(1) < 0.5
            LET g1 == NextRng(g)
            IN [x |-> IF 2 * g1 < RngMod THEN Did(x, "hflip", <<>>) ELSE x,
                g |-> g1]
       [] t.op = "RandomResizedCrop" ->
            \* a random box of the image, resized to size x size
            LET g1 == NextRng(g)
                g2 == NextRng(g1)
                bw == x.w \div 2
                bh == x.h \div 2
                left == (g1 * (x.w - bw)) \div RngMod
                top == (g2 * (x.h - bh)) \div RngMod
            IN [x |-> Did(Did([x EXCEPT !.w = t.args[1], !.h = t.args[1]],
                              "crop", <<left, top, bw, bh>>),
                          "resize", <<t.args[1], t.args[1]>>),
                g |-> g2]

\* transforms.Compose(ts)(st.x)
RECURSIVE Compose(_, _)
Compose(ts, st) ==
  IF ts = <<>> THEN st ELSE Compose(Tail(ts), ApplyOp(Head(ts), st))

PipelineStart ==
  /\ rng = [r \in Runs |-> manual_seed(seed)]
  /\ applied = [r \in Runs |-> 0]
  /\ train_out = [r \in Runs |-> <<>>]
  /\ val_out = [r \in Runs |-> {}]
  /\ valAfterTrain = [r \in Runs |-> FALSE]

PipelineIdle == img = NoImage /\ PipelineStart

\* train_ds[i] in run r
ApplyTrain(r, x) ==
  /\ applied[r] < MaxTrain
  /\ LET st == Compose(train_transforms, [x |-> x, g |-> rng[r]])
     IN /\ rng' = [rng EXCEPT ![r] = st.g]
        /\ train_out' = [train_out EXCEPT ![r] = <<st.x>>]
  /\ applied' = [applied EXCEPT ![r] = @ + 1]
  /\ UNCHANGED <<img, val_out, valAfterTrain>>
  /\ UNCHANGED <<acqVars, fitOwnVars, loaderVars>>

\* val_ds[i] in run r, for the image img
ApplyVal(r) ==
  /\ LET st == Compose(val_transforms, [x |-> img, g |-> rng[r]])
     IN /\ rng' = [rng EXCEPT ![r] = st.g]
        /\ val_out' = [val_out EXCEPT ![r] = @ \cup {st.x}]
  /\ valAfterTrain' = [valAfterTrain EXCEPT ![r] = @ \/ applied[r] > 0]
  /\ UNCHANGED <<img, applied, train_out>>
  /\ UNCHANGED <<acqVars, fitOwnVars, loaderVars>>

\* ------------------------ training iterator and train loop (cells 27, 29)
IterBatches == 4

\* iterator_train__num_workers=2
iterator_train__num_workers == 2

Workers == 1..iterator_train__num_workers

Phases == <<"forward", "loss", "backward">>

LoaderIdle ==
  /\ sent = 0
  /\ task = [w \in Workers |-> 0]
  /\ fetched = [w \in Workers |-> 0]
  /\ ready = {}
  /\ cur = 0
  /\ phase = "idle"
  /\ log = <<>>
  /\ writers = {}

\* the train loop asks for the next batch only after the step on cur is over
CanStartBatch_overlapped == phase \in {"idle", "loss"}

CanStartBatch == phase = "idle"

\* an idle worker is handed the indices of the next batch
Dispatch(w) ==
  /\ task[w] = 0
  /\ sent < IterBatches
  /\ sent' = sent + 1
  /\ task' = [task EXCEPT ![w] = sent + 1]
  /\ fetched' = [fetched EXCEPT ![w] = 0]
  /\ UNCHANGED <<ready, cur, phase, log, writers>>
  /\ UNCHANGED <<acqVars, fitOwnVars, pipeVars>>

\* a worker loads and transforms one sample of its batch
LoadSample(w) ==
  /\ task[w] # 0
  /\ fetched[w] < batch_size
  /\ fetched' = [fetched EXCEPT ![w] = @ + 1]
  /\ UNCHANGED <<sent, task, ready, cur, phase, log, writers>>
  /\ UNCHANGED <<acqVars, fitOwnVars, pipeVars>>

\* a worker puts its collated batch on the result queue
Deliver(w) ==
  /\ task[w] # 0
  /\ fetched[w] = batch_size
  /\ ready' = ready \cup {task[w]}
  /\ task' = [task EXCEPT ![w] = 0]
  /\ fetched' = [fetched EXCEPT ![w] = 0]
  /\ UNCHANGED <<sent, cur, phase, log, writers>>
  /\ UNCHANGED <<acqVars, fitOwnVars, pipeVars>>

\* for batch in iterator: batches are handed out in index order
NextBatch ==
  /\ CanStartBatch
  /\ (cur + 1) \in ready
  /\ cur' = cur + 1
  /\ ready' = ready \ {cur + 1}
  /\ phase' = "fetched"
  /\ UNCHANGED <<sent, task, fetched, log, writers>>
  /\ UNCHANGED <<acqVars, fitOwnVars, pipeVars>>

\* y_pred = infer(Xi)
Forward ==
  /\ phase = "fetched"
  /\ phase' = "forward"
  /\ log' = Append(log, <<cur, "forward">>)
  /\ UNCHANGED <<sent, task, fetched, ready, cur, writers>>
  /\ UNCHANGED <<acqVars, fitOwnVars, pipeVars>>

\* loss = get_loss(y_pred, yi)
Loss ==
  /\ phase = "forward"
  /\ phase' = "loss"
  /\ log' = Append(log, <<cur, "loss">>)
  /\ UNCHANGED <<sent, task, fetched, ready, cur, writers>>
  /\ UNCHANGED <<acqVars, fitOwnVars, pipeVars>>

\* loss.backward(); optimizer.step()
Backward ==
  /\ phase = "loss"
  /\ phase' = "idle"
  /\ log' = Append(log, <<cur, "backward">>)
  /\ writers' = writers \cup {"main"}
  /\ UNCHANGED <<sent, task, fetched, ready, cur>>
  /\ UNCHANGED <<acqVars, fitOwnVars, pipeVars>>

vars == <<acqVars, fitVars>>

Trees ==
  {NoDir} \cup [exists : {TRUE}, train : 0..NumTrain, val : 0..NumVal]

InitNotebook ==
  /\ data_zip \in {"absent", "partial", "complete"}
  /\ data_path \in Trees
  /\ best_model_pt = <<>>
  /\ gpuAvailable \in BOOLEAN
  /\ pc = "cell_download"
  /\ error = "none"
  /\ data = "none"
  /\ train_ds = 0
  /\ val_ds = 0
  /\ calls = 0
  /\ fs0 = FS
  /\ callReqs = 0
  /\ callWrites = 0
  /\ callExtracts = 0
  /\ succeeded = FALSE
  /\ fsAfter = FS
  /\ afterSuccess = FALSE
  /\ netFailed = FALSE
  /\ device_in_use = "none"
  /\ params = PretrainedModel
  /\ requires_grad = [n \in ParamNames |-> TRUE]
  /\ optimizer_lr = net.lr
  /\ last_epoch = 0
  /\ best_score_ = NegInf
  /\ epoch = 0
  /\ batch = 0
  /\ valid_acc = 0
  /\ event_cp = FALSE
  /\ seenAccs = {}
  /\ snapAtFirstMax = PretrainedModel
  /\ trainSteps = 0
  /\ validPasses = 0

Init == InitNotebook /\ PipelineIdle /\ LoaderIdle

Next ==
  \/ Call
  \/ UrlopenRead
  \/ UrlopenReadFails
  \/ WriteZip
  \/ WriteZipFails
  \/ ZipOpen
  \/ ExtractMember
  \/ ExtractFails
  \/ ExtractDone
  \/ Return
  \/ LoadDatasets
  \/ NetFit
  \/ LoadPretrainedFails
  \/ EpochBegin
  \/ TrainStep
  \/ ValidPass
  \/ EpochEnd
  \/ TrainingError

Spec == Init /\ [][Next]_vars

\* The notebook started where no extracted directory exists yet: whatever
\* tree is found later was put there by download_and_extract_data itself.
InitClean == Init /\ data_path = NoDir

SpecClean == InitClean /\ [][Next]_vars

\* The two runs of the transform pipelines: the notebook has its data and
\* stands before the dataset cell; each run starts from torch.manual_seed.
InitPipeline ==
  /\ InitNotebook
  /\ data_zip = "complete"
  /\ data_path = ArchiveTree
  /\ gpuAvailable
  /\ img \in Images
  /\ PipelineStart
  /\ LoaderIdle

NextPipeline ==
  \/ \E r \in Runs : \E x \in Images : ApplyTrain(r, x)
  \/ \E r \in Runs : ApplyVal(r)

SpecPipeline == InitPipeline /\ [][NextPipeline]_vars

\* One epoch's training iterator with its workers beside the train loop.
InitWorkers ==
  /\ InitNotebook
  /\ data_zip = "complete"
  /\ data_path = ArchiveTree
  /\ gpuAvailable
  /\ PipelineIdle
  /\ LoaderIdle

NextWorkers ==
  \/ \E w \in Workers : Dispatch(w)
  \/ \E w \in Workers : LoadSample(w)
  \/ \E w \in Workers : Deliver(w)
  \/ NextBatch
  \/ Forward
  \/ Loss
  \/ Backward

SpecWorkers == InitWorkers /\ [][NextWorkers]_vars

\* ------------------------------------------------------------ properties
\* a cell after the acquisition cell has been started
LaterStage ==
  \/ pc \in {"datasets_loaded", "epoch_begin", "train", "epoch_end", "done"}
  \/ pc = "raised" /\ error \in {"dataset", "weights", "device_unavailable",
                                 "training"}

\* C1: once an invocation of download_and_extract_data has returned
\* normally, the archive file and the extracted tree stay exactly as that
\* invocation left them, and every later invocation makes no request,
\* writes no archive and extracts no member.
C1_Idempotent ==
  succeeded =>
    /\ data_zip = fsAfter.zip
    /\ data_path = fsAfter.path
    /\ afterSuccess =>
         /\ callReqs = 0
         /\ callWrites = 0
         /\ callExtracts = 0
         /\ pc \notin {"download", "write", "zip_open", "extractall"}

\* a second invocation has returned after a first one that downloaded and
\* extracted the archive
C1_Witness ==
  /\ afterSuccess
  /\ pc = "returned"
  /\ calls = 2
  /\ fsAfter = [zip |-> "complete", path |-> ArchiveTree]
  /\ FS = fsAfter

\* C2: an invocation that starts with the extracted directory in place
\* makes no network request, writes no archive file and extracts nothing,
\* with or without the archive file, and leaves the filesystem as it was.
C2_SkipWhenExtracted ==
  (calls > 0 /\ PathExists(fs0.path)) =>
    /\ callReqs = 0
    /\ callWrites = 0
    /\ callExtracts = 0
    /\ FS = fs0
    /\ pc \notin {"download", "write", "zip_open", "extractall"}

\* an invocation returned that found the directory but no archive file
C2_Witness ==
  /\ pc = "returned"
  /\ PathExists(fs0.path)
  /\ fs0.zip = "absent"
  /\ ~afterSuccess

\* C3: when the function has returned, and in every later cell, the
\* extracted directory exists; if the invocation found no directory, the
\* whole archive has been extracted from a complete archive file, fetched
\* with one request if the file was missing.
C3_DataBeforeLaterStages ==
  (pc = "returned" \/ LaterStage) =>
    /\ PathExists(data_path)
    /\ ~PathExists(fs0.path) =>
         /\ data_path = ArchiveTree
         /\ data_zip = "complete"
         /\ callExtracts = NumTrain + NumVal
         /\ callReqs = (IF ZipExists(fs0.zip) THEN 0 ELSE 1)

\* training is under way on data that the same run downloaded and extracted
C3_Witness ==
  /\ pc = "train"
  /\ fs0 = [zip |-> "absent", path |-> NoDir]
  /\ callReqs = 1
  /\ data_path = ArchiveTree

\* C4: an invocation makes at most one request; when the request fails the
\* run is ended by that error: nothing is written or extracted, no dataset
\* is loaded and no training step runs.
C4_FetchFailureFatal ==
  /\ callReqs <= 1
  /\ netFailed =>
       /\ pc = "raised"
       /\ error = "network"
       /\ callWrites = 0
       /\ callExtracts = 0
       /\ train_ds = 0
       /\ val_ds = 0
       /\ trainSteps = 0

\* the fetch failed and the run is over
C4_Witness ==
  /\ netFailed
  /\ pc = "raised"
  /\ error = "network"
  /\ callReqs = 1

\* replaying the recorded accuracies through the scoring and checkpoint
\* rules marks exactly the epochs the notebook marked
RecordedCpAgrees ==
  /\ Len(recorded_valid_acc) = net.max_epochs
  /\ CheckpointEpochs(recorded_valid_acc) = recorded_cp

\* the scheduler's rate in every epoch prints as the notebook printed it
RecordedLrAgrees ==
  \A e \in 1..net.max_epochs : Round4(LrAfter(e - 1)) = recorded_lr[e]

\* C5: best_model.pt is rewritten only at the end of an epoch whose
\* validation accuracy is strictly greater than the accuracy of every
\* earlier epoch of the run; an accuracy equal to the best one rewrites
\* nothing.
C5_MonotonicCheckpoint ==
  [][ (best_model_pt' # best_model_pt
         \/ (pc = "epoch_end" /\ pc' # "raised" /\ event_cp'))
      => (pc = "epoch_end" /\ \A a \in seenAccs : valid_acc > a) ]_vars

\* the second epoch repeated the best accuracy and the file still holds the
\* parameters of the first epoch
C5_Witness ==
  /\ pc = "epoch_begin"
  /\ epoch = 2
  /\ seenAccs = {1}
  /\ valid_acc = 1
  /\ ~event_cp
  /\ best_model_pt # <<>>
  /\ best_model_pt # <<params>>
  /\ RecordedCpAgrees

\* C6: from the end of the first epoch on the checkpoint file exists and
\* holds the parameters as they were at the end of the earliest epoch that
\* reached the highest validation accuracy seen so far.
C6_BestModelStored ==
  seenAccs # {} =>
    /\ best_model_pt # <<>>
    /\ best_model_pt = <<snapAtFirstMax>>

\* the run is complete, the file was overwritten on an improvement after the
\* first epoch and the last epoch was not the best one
C6_Witness ==
  /\ pc = "done"
  /\ seenAccs = {0, 1}
  /\ best_model_pt # <<>>
  /\ best_model_pt # <<params>>
  /\ best_model_pt[1][<<"m","o","d","e","l",".","f","c",".","w">>] > NumBatches(train_ds)
  /\ valid_acc = 0

\* C7: once the first epoch has begun exactly the parameters named
\* 'model.fc...' are trainable, and no parameter outside 'model.fc' ever
\* differs from its value in the freshly built pretrained model.
C7_Freezing ==
  /\ epoch >= 1 =>
       \A n \in ParamNames : requires_grad[n] <=> StartsWith(n, model_fc)
  /\ trainSteps > 0 => epoch >= 1
  /\ \A n \in ParamNames :
       ~StartsWith(n, model_fc) => params[n] = PretrainedModel[n]

\* training is complete: the final layer moved, the backbone did not
C7_Witness ==
  /\ pc = "done"
  /\ \A n \in ParamNames :
       IF StartsWith(n, model_fc)
         THEN params[n] = trainSteps /\ requires_grad[n]
         ELSE params[n] = PretrainedModel[n] /\ ~requires_grad[n]
  /\ trainSteps > 0

RECURSIVE Pow10(_)
Pow10(k) == IF k = 0 THEN 1 ELSE 10 * Pow10(k - 1)

\* C8: during epoch e the learning rate is 0.001 multiplied by 0.1
\* floor((e-1)/7) times (rates in units of 1e-9), and the rate changes only
\* at the end of an epoch whose number is a multiple of 7, by the factor 0.1.
C8_StepDecay ==
  /\ [](pc \in {"train", "epoch_end"} =>
          optimizer_lr * Pow10((epoch - 1) \div 7) = 1000000)
  /\ [][ optimizer_lr' # optimizer_lr =>
           /\ pc = "epoch_end"
           /\ epoch % 7 = 0
           /\ optimizer_lr' * 10 = optimizer_lr ]_vars

\* the last stretch of the run: three decays have been applied
C8_Witness ==
  /\ pc = "train"
  /\ epoch = 22
  /\ optimizer_lr = 1000
  /\ last_epoch = 21
  /\ RecordedLrAgrees

\* smallest k with 4 * k >= n
Ceil4(n) == CHOOSE k \in 0..n : 4 * k >= n /\ (k = 0 \/ 4 * (k - 1) < n)

\* C9: a run of net.fit that is not aborted ends after ceil(N/4) * 25
\* training steps and 25 validation passes: the counts never exceed these
\* numbers, a further step of the loop is possible until they are reached,
\* and they are reached when fit is done.
C9_StepCount ==
  /\ trainSteps <= Ceil4(train_ds) * 25
  /\ validPasses <= 25
  /\ pc \in {"epoch_begin", "train", "epoch_end"} =>
       ENABLED (EpochBegin \/ TrainStep \/ ValidPass \/ EpochEnd)
  /\ pc = "done" =>
       /\ trainSteps = Ceil4(train_ds) * 25
       /\ validPasses = 25

\* fit is done on a training set that does not divide into batches of 4
C9_Witness ==
  /\ pc = "done"
  /\ train_ds > 4
  /\ train_ds % 4 # 0
  /\ trainSteps = 50
  /\ validPasses = 25

\* C10: on a machine without a GPU the run never trains and never runs on
\* the CPU: no epoch begins, no training step is executed and the module is
\* on no device; net.fit ends with the device-unavailable error.
C10_NoCpuFallback ==
  ~gpuAvailable =>
    /\ pc \notin {"epoch_begin", "train", "epoch_end", "done"}
    /\ epoch = 0
    /\ trainSteps = 0
    /\ validPasses = 0
    /\ device_in_use = "none"
    /\ (pc = "raised" /\ train_ds > 0 /\ error # "weights")
         => error = "device_unavailable"

\* net.fit was called for device 'cuda' without a GPU and raised
C10_Witness ==
  /\ ~gpuAvailable
  /\ net.device = "cuda"
  /\ pc = "raised"
  /\ error = "device_unavailable"
  /\ trainSteps = 0

\* C11: once an error has been raised during training the run is over: no
\* training step, validation pass, learning-rate change or checkpoint write
\* follows, and the notebook stays at the failed cell.
C11_TrainingErrorAborts ==
  /\ [](error = "training" => pc = "raised")
  /\ [][ error = "training" =>
        /\ pc' = "raised"
        /\ error' = "training"
        /\ trainSteps' = trainSteps
        /\ validPasses' = validPasses
        /\ optimizer_lr' = optimizer_lr
        /\ last_epoch' = last_epoch
        /\ best_model_pt' = best_model_pt
        /\ params' = params
        /\ epoch' = epoch ]_vars

\* an error ended the run in the middle of a later epoch
C11_Witness ==
  /\ pc = "raised"
  /\ error = "training"
  /\ epoch > 1
  /\ epoch < net.max_epochs
  /\ trainSteps > 0
  /\ validPasses = epoch - 1

\* C13: within fit, epoch e consists of all its training batches, then one
\* validation pass, then the epoch-end observers: training steps are taken
\* only when the validation passes and the observers (scheduler steps,
\* checkpoint decision) of all earlier epochs are complete, the validation
\* pass only after the last batch, the observers only after the validation
\* pass, and the checkpoint written at an epoch end holds that epoch's
\* parameters and accuracy.
C13_EpochStructure ==
  /\ pc = "train" =>
       /\ epoch >= 1
       /\ batch <= NumBatches(train_ds)
       /\ trainSteps = (epoch - 1) * NumBatches(train_ds) + batch
       /\ validPasses = epoch - 1
       /\ last_epoch = epoch - 1
  /\ pc = "epoch_end" =>
       /\ batch = NumBatches(train_ds)
       /\ trainSteps = epoch * NumBatches(train_ds)
       /\ validPasses = epoch
       /\ last_epoch = epoch - 1
  /\ pc \in {"epoch_begin", "done"} =>
       /\ trainSteps = epoch * NumBatches(train_ds)
       /\ validPasses = epoch
       /\ last_epoch = epoch
       /\ (epoch >= 1 /\ event_cp) =>
            /\ best_model_pt = <<params>>
            /\ best_score_ = valid_acc

\* the second epoch is being trained after the first one was validated,
\* scheduled and checkpointed
C13_Witness ==
  /\ pc = "train"
  /\ epoch = 2
  /\ batch = 1
  /\ NumBatches(train_ds) = 2
  /\ trainSteps = 3
  /\ validPasses = 1
  /\ last_epoch = 1
  /\ best_model_pt # <<>>

\* C15: a request is made only by an invocation that found neither the
\* directory nor the archive file; an invocation that found the archive
\* file but no directory makes no request, does not write the archive,
\* leaves it as it was and, when it returns, has extracted all of it.
C15_DownloadOnlyWhenBothMissing ==
  calls > 0 =>
    /\ callReqs > 0 => (~PathExists(fs0.path) /\ ~ZipExists(fs0.zip))
    /\ (ZipExists(fs0.zip) /\ ~PathExists(fs0.path)) =>
         /\ callReqs = 0
         /\ callWrites = 0
         /\ data_zip = fs0.zip
         /\ pc \notin {"download", "write"}
         /\ pc \in {"print", "returned"} =>
              (callExtracts = NumTrain + NumVal /\ data_path = ArchiveTree)

\* the archive was there, the directory was not: extracted without a request
C15_Witness ==
  /\ pc = "returned"
  /\ fs0 = [zip |-> "complete", path |-> NoDir]
  /\ callReqs = 0
  /\ callExtracts = NumTrain + NumVal
  /\ data_path = ArchiveTree
  /\ data_zip = "complete"

\* C16 (as claimed): an invocation that returns normally has the complete
\* archive content extracted, whatever earlier invocations were aborted.
C16_ReturnImpliesComplete ==
  pc = "returned" => data_path = ArchiveTree

\* C17: a failed fetch leaves the filesystem as the invocation found it,
\* without an archive file, and the next invocation goes to the download
\* again.
C17_FailedFetchLeavesNoArchive ==
  /\ [](netFailed =>
          /\ FS = fs0
          /\ data_zip = "absent"
          /\ ~PathExists(data_path)
          /\ callWrites = 0)
  /\ [][ (netFailed /\ calls' = calls + 1) => pc' = "download" ]_vars

\* the fetch failed, nothing was written, and running the cell again would
\* fetch again
C17_Witness ==
  /\ netFailed
  /\ pc = "raised"
  /\ FS = fs0
  /\ data_zip = "absent"
  /\ calls < MaxCalls
  /\ ENABLED (Call /\ pc' = "download")

\* C12: with the seed fixed, two runs that apply the validation pipeline
\* (Resize 256, CenterCrop 224, ToTensor, Normalize) to the same image get
\* the same tensor, whatever the randomized training pipeline did in
\* either run before or between the applications.
C12_ValDeterministic ==
  \A r1 \in Runs : \A r2 \in Runs :
    \A t1 \in val_out[r1] : \A t2 \in val_out[r2] :
      /\ t1 = t2
      /\ t1.id = img.id /\ t1.mode = "tensor" /\ t1.w = 224 /\ t1.h = 224

\* Both runs applied the validation pipeline after training transforms
\* that left their generators in different states.
C12_Witness ==
  /\ valAfterTrain[1] /\ valAfterTrain[2]
  /\ applied[1] = MaxTrain /\ applied[2] = 1
  /\ rng[1] # rng[2]
  /\ train_out[1] # train_out[2]
  /\ val_out[1] # {} /\ val_out[2] # {}

ExpectedLog(n) ==
  [i \in 1..n |-> <<((i - 1) \div Len(Phases)) + 1,
                    Phases[((i - 1) % Len(Phases)) + 1]>>]

\* C14: with two loader workers running in parallel, only the train loop
\* writes the parameters, and the forward pass, loss and backward/update
\* of a batch are all over before any phase of the next batch, in every
\* interleaving of the workers.
C14_OneBatchAtATime ==
  /\ writers \subseteq {"main"}
  /\ log = ExpectedLog(Len(log))
  /\ phase = "idle" => Len(log) = Len(Phases) * cur
  /\ phase = "fetched" => Len(log) = Len(Phases) * (cur - 1)
  /\ \A b \in ready : b > cur
  /\ \A w \in Workers : task[w] = 0 \/ task[w] > cur

\* The train loop is between the loss and the update of batch 2 while both
\* workers are in the middle of loading later batches.
C14_Witness ==
  /\ cur = 2 /\ phase = "loss"
  /\ writers = {"main"}
  /\ Len(log) = 5
  /\ \A w \in Workers : task[w] > cur /\ fetched[w] \in 1..(batch_size - 1)
  /\ task[1] > task[2]

====
